---- MODULE Spec2Model ----
(***************************************************************************)
(* The scoring and segmentation engine of the Yogyakarta coffee shop       *)
(* analysis: phase 3 (code/scoring-and-segmentation.py) turns review texts *)
(* into per-shop persona totals and min-max normalized scores, phase 4     *)
(* (code/recommendation.py) classifies the shops against the population    *)
(* medians.  Texts are sequences of one-character strings, so that the     *)
(* regular expression, the stemmer and split() act on characters; a word   *)
(* becomes a string only where the code looks it up in a set or a dict.    *)
(* Floating-point values are IEEE doubles, kept exactly as fixed-point     *)
(* numbers (see the section on arithmetic).                                *)
(***************************************************************************)
EXTENDS Integers, Sequences, FiniteSets, TLC

VARIABLES
    pc,            \* position of the phase 3 script
    pc4,           \* position of the phase 4 script
    shops_file,    \* datasets/coffee-shop-yogyakarta-indonesia.csv, or Absent
    reviews_file,  \* datasets/coffee-shop-review-yogyakarta-indonesia.csv, or Absent
    df_shops,      \* phase 3: the shops dataframe (a sequence of rows)
    df_reviews,    \* phase 3: the reviews dataframe
    df_merged,     \* phase 3: the merged dataframe
    shop_scores,   \* phase 3: the per-shop dataframe
    scores_file,   \* output/stage-3-scoring/coffee_shop_scores_final.csv, or Absent
    df_scores,     \* phase 4: the dataframe read from scores_file
    final_file,    \* output/final_segmented_shops.csv, or Absent
    top_nugas_shops,        \* phase 4: the top shops of 'Productivity Hub'
    top_nongkrong_shops,    \* phase 4: the top shops of 'Social Hotspot'
    top_all_rounder_shops   \* phase 4: the top shops of 'All-Rounder'

vars == <<pc, pc4, shops_file, reviews_file, df_shops, df_reviews, df_merged,
          shop_scores, scores_file, df_scores, final_file,
          top_nugas_shops, top_nongkrong_shops, top_all_rounder_shops>>

\* The three lists of recommendations.
top_shops == <<top_nugas_shops, top_nongkrong_shops, top_all_rounder_shops>>

\* A file that does not exist, and a file holding a table.
Absent == [exists |-> FALSE, rows |-> <<>>]
file_of(rows) == [exists |-> TRUE, rows |-> rows]

\* A missing value: in a column of strings, and in a column whose values are
\* sequences (a text is a sequence of characters, an address one of parts).
NaN == "NaN"
NaNSeq == <<"NaN">>

(***************************************************************************)
(* Characters and words.                                                   *)
(***************************************************************************)
LowerSeq == <<"a","b","c","d","e","f","g","h","i","j","k","l","m",
              "n","o","p","q","r","s","t","u","v","w","x","y","z">>
UpperSeq == <<"A","B","C","D","E","F","G","H","I","J","K","L","M",
              "N","O","P","Q","R","S","T","U","V","W","X","Y","Z">>

\* The class a-z of the regular expression.
Letters == {LowerSeq[i] : i \in 1..Len(LowerSeq)}

\* The class \s of the regular expression, also what str.split() splits on.
Whitespace == {" ", "\t", "\n"}

\* str.lower() on one character.
lower_char(c) ==
    IF \E i \in 1..Len(UpperSeq) : UpperSeq[i] = c
    THEN LowerSeq[CHOOSE i \in 1..Len(UpperSeq) : UpperSeq[i] = c]
    ELSE c

\* str.lower()
lower(text) == [i \in 1..Len(text) |-> lower_char(text[i])]

RECURSIVE Str(_)
\* The string a sequence of characters spells.
Str(w) == IF w = <<>> THEN "" ELSE Head(w) \o Str(Tail(w))

RECURSIVE SplitFrom(_, _, _, _, _)
\* The pieces of text[start..] between the characters of seps, i being the
\* position looked at; empty pieces are dropped unless keepEmpty.
SplitFrom(text, seps, start, i, keepEmpty) ==
    LET piece == SubSeq(text, start, i - 1)
        found == IF piece = <<>> /\ ~keepEmpty THEN <<>> ELSE <<piece>>
    IN  IF i > Len(text) THEN found
        ELSE IF text[i] \in seps
             THEN found \o SplitFrom(text, seps, i + 1, i + 1, keepEmpty)
             ELSE SplitFrom(text, seps, start, i + 1, keepEmpty)

\* str.split(): the maximal runs of non-whitespace characters.
split(text) == SplitFrom(text, Whitespace, 1, 1, FALSE)

\* str.split(' '): the pieces between single spaces, empty pieces kept.
split_space(text) == SplitFrom(text, {" "}, 1, 1, TRUE)

RECURSIVE join(_)
\* " ".join(words)
join(words) ==
    IF words = <<>> THEN <<>>
    ELSE IF Len(words) = 1 THEN Head(words)
    ELSE Head(words) \o <<" ">> \o join(Tail(words))

\* A variant that puts a space where a character is taken out.
sub_non_letters_spaced(text) ==
    [i \in 1..Len(text) |-> IF text[i] \in Letters \cup Whitespace THEN text[i] ELSE " "]

\* re.sub(r'[^a-z\s]', '', text): the characters outside a-z and \s are deleted.
sub_non_letters(text) == SelectSeq(text, LAMBDA c : c \in Letters \cup Whitespace)

(***************************************************************************)
(* The Sastrawi stemmer.  stem() normalizes the text (every character      *)
(* outside a-z, 0-9, space and hyphen becomes a space, runs of spaces      *)
(* collapse, the ends are stripped), splits it on single spaces, stems     *)
(* every word and joins the stems with single spaces.  A word of the root  *)
(* dictionary is returned as it is; a word that is a root followed by an   *)
(* inflectional suffix is reduced to the root; any other word is returned  *)
(* unchanged.                                                              *)
(***************************************************************************)
root_words == {"teman", "tugas", "kerja", "tenang", "nyaman", "kumpul", "ramai"}

inflection_suffixes == {<<"n","y","a">>, <<"k","u">>, <<"m","u">>}

Digits == {"0","1","2","3","4","5","6","7","8","9"}

normalize_text(text) ==
    LET spaced == [i \in 1..Len(text) |->
                     IF text[i] \in Letters \cup Digits \cup {" ", "-"}
                     THEN text[i] ELSE " "]
        pieces == SelectSeq(split_space(spaced), LAMBDA w : w # <<>>)
    IN  join(pieces)

stem_word(word) ==
    IF Str(word) \in root_words THEN word
    ELSE LET cuts == {n \in 1..(Len(word) - 1) :
                        /\ SubSeq(word, n + 1, Len(word)) \in inflection_suffixes
                        /\ Str(SubSeq(word, 1, n)) \in root_words}
         IN  IF cuts = {} THEN word
             ELSE SubSeq(word, 1, CHOOSE n \in cuts : TRUE)

\* stemmer.stem(text)
stem(text) ==
    LET words == split_space(normalize_text(text))
    IN  join([i \in 1..Len(words) |-> stem_word(words[i])])

(***************************************************************************)
(* Stop words: the custom list of the script, and the words of the NLTK    *)
(* Indonesian list that occur in the texts of this model.                  *)
(***************************************************************************)
custom_stopwords ==
    {"yg", "ga", "gak", "engga", "nggak", "nya", "sih", "saja", "aja", "kalo",
     "kalau", "oke", "banget", "bgt", "pas", "biar", "bikin", "kok", "tp",
     "tapi", "udah", "sdh", "jgn", "jangan", "makin", "pake", "pakai", "cuma",
     "trs", "terus", "emang", "cukup", "kurang", "agak", "lumayan", "tempat", "kopi"}

stopwords_indonesian == {"yang", "di", "dan"} \cup custom_stopwords

\* A variant that keeps every word.
keep_words_unfiltered(text) == split(text)

\* The list comprehension of preprocess_text_advanced.
keep_words(text) == SelectSeq(split(text), LAMBDA w : Str(w) \notin stopwords_indonesian)

preprocess_text_advanced(text) ==
    join(keep_words(stem(sub_non_letters(lower(text)))))

(***************************************************************************)
(* Weighted scoring.                                                       *)
(***************************************************************************)
nugas_weights ==
    [tugas |-> 3, kerja |-> 3, wifi |-> 3, colok |-> 3, laptop |-> 2, produktif |-> 2,
     konsen |-> 2, tenang |-> 1, nyaman |-> 1, sendiri |-> 1, buku |-> 1, belajar |-> 2]

nongkrong_weights ==
    [nongkrong |-> 3, kumpul |-> 3, teman |-> 3, bareng |-> 3, asyik |-> 2, suasana |-> 2,
     betah |-> 1, instagram |-> 2, estetik |-> 2, ramai |-> 1, seru |-> 2, obrol |-> 2,
     santai |-> 1]

\* weights.get(word, 0)
weight_get(weights, word) == IF word \in DOMAIN weights THEN weights[word] ELSE 0

RECURSIVE sum_weights(_, _)
sum_weights(words, weights) ==
    IF words = <<>> THEN 0
    ELSE weight_get(weights, Str(Head(words))) + sum_weights(Tail(words), weights)

RECURSIVE distinct_words(_)
distinct_words(words) ==
    IF words = <<>> THEN <<>>
    ELSE LET rest == distinct_words(Tail(words))
         IN  IF \E i \in 1..Len(rest) : rest[i] = Head(words) THEN rest
             ELSE <<Head(words)>> \o rest

\* A variant that counts every distinct word once.
calculate_weighted_score_distinct(text, weights) ==
    sum_weights(distinct_words(split(text)), weights)

calculate_weighted_score(text, weights) == sum_weights(split(text), weights)

(***************************************************************************)
(* Arithmetic.  MinMaxScaler and median() work on IEEE doubles (float64).  *)
(* Every double that occurs here is a multiple of 2^-58 below 2^14, so a   *)
(* magnitude is kept exactly as the integer n of n * 2^-58, written in     *)
(* three limbs <<a, b, c>> = a * 2^40 + b * 2^20 + c with b, c < 2^20; a   *)
(* double is a sign and a magnitude of at most 53 significant bits.  The   *)
(* supported range of a divisor is 1..31.                                  *)
(***************************************************************************)
LimbBase == 2^20

\* The magnitude of the integer k.
m_int(k) == <<k * 2^18, 0, 0>>

m_zero == <<0, 0, 0>>

m_add(x, y) ==
    LET c == x[3] + y[3]
        b == x[2] + y[2] + (c \div LimbBase)
    IN  <<x[1] + y[1] + (b \div LimbBase), b % LimbBase, c % LimbBase>>

m_less(x, y) ==
    \/ x[1] < y[1]
    \/ x[1] = y[1] /\ x[2] < y[2]
    \/ x[1] = y[1] /\ x[2] = y[2] /\ x[3] < y[3]

m_leq(x, y) == ~m_less(y, x)

\* x - y, for y <= x
m_sub(x, y) ==
    LET c == x[3] - y[3]
        bc == IF c < 0 THEN 1 ELSE 0
        b == x[2] - y[2] - bc
        bb == IF b < 0 THEN 1 ELSE 0
    IN  <<x[1] - y[1] - bb, b + bb * LimbBase, c + bc * LimbBase>>

\* |x - y|
m_dist(x, y) == IF m_less(x, y) THEN m_sub(y, x) ELSE m_sub(x, y)

\* x * k for a small integer k >= 0
m_mul_small(x, k) ==
    LET c == x[3] * k
        b == x[2] * k + (c \div LimbBase)
    IN  <<x[1] * k + (b \div LimbBase), b % LimbBase, c % LimbBase>>

\* <<x div r, x mod r>> for a small integer r >= 1
m_divmod_small(x, r) ==
    LET ra == x[1] % r
        nb == ra * LimbBase + x[2]
        nc == (nb % r) * LimbBase + x[3]
    IN  <<(<<x[1] \div r, nb \div r, nc \div r>>), nc % r>>

RECURSIVE int_bit_length(_)
int_bit_length(n) == IF n = 0 THEN 0 ELSE 1 + int_bit_length(n \div 2)

bit_length(x) ==
    IF x[1] > 0 THEN 40 + int_bit_length(x[1])
    ELSE IF x[2] > 0 THEN 20 + int_bit_length(x[2])
    ELSE int_bit_length(x[3])

\* The number of significant bits of a double.
MantissaBits == 53

\* Rounding to the nearest double, ties to even, of the magnitude x (plus a
\* positive amount below 2^-58 when sticky): at most 19 bits are dropped.
round_double(x, sticky) ==
    LET d == bit_length(x) - MantissaBits
    IN  IF d <= 0 THEN x
        ELSE LET unit == 2^d
                 low  == x[3] % unit
                 half == unit \div 2
                 kept == <<x[1], x[2], x[3] - low>>
                 odd  == (x[3] \div unit) % 2 = 1
                 up   == \/ low > half
                         \/ low = half /\ (sticky \/ odd)
             IN  IF up THEN m_add(kept, <<0, 0, unit>>) ELSE kept

f_zero == [neg |-> FALSE, mag |-> m_zero]

f_make(neg, mag) == [neg |-> neg /\ mag # m_zero, mag |-> mag]

\* The double of the integer k >= 0.
f_int(k) == f_make(FALSE, m_int(k))

f_neg(x) == f_make(~x.neg, x.mag)

\* The double quotient k / r of two integers, 0 <= k, 1 <= r.
f_div_int(k, r) ==
    LET qr == m_divmod_small(m_int(k), r)
    IN  f_make(FALSE, round_double(qr[1], qr[2] # 0))

\* The double product of the integer-valued double k >= 0 and the double x.
f_mul_int(k, x) == f_make(x.neg, round_double(m_mul_small(x.mag, k), FALSE))

\* The double sum x + y.
f_add(x, y) ==
    IF x.neg = y.neg
    THEN f_make(x.neg, round_double(m_add(x.mag, y.mag), FALSE))
    ELSE IF m_less(x.mag, y.mag)
         THEN f_make(y.neg, round_double(m_sub(y.mag, x.mag), FALSE))
         ELSE f_make(x.neg, round_double(m_sub(x.mag, y.mag), FALSE))

\* The double x / 2 (exact).
f_half(x) == f_make(x.neg, m_divmod_small(x.mag, 2)[1])

\* x < y on doubles
f_less(x, y) ==
    IF x.neg /\ ~y.neg THEN TRUE
    ELSE IF ~x.neg /\ y.neg THEN FALSE
    ELSE IF x.neg THEN m_less(y.mag, x.mag)
    ELSE m_less(x.mag, y.mag)

\* x >= y on doubles
f_geq(x, y) == ~f_less(x, y)

f_one == f_int(1)

(***************************************************************************)
(* MinMaxScaler(), feature_range (0, 1), one column at a time.             *)
(***************************************************************************)
RECURSIVE seq_min(_)
seq_min(xs) ==
    IF Len(xs) = 1 THEN Head(xs)
    ELSE LET m == seq_min(Tail(xs)) IN IF Head(xs) < m THEN Head(xs) ELSE m

RECURSIVE seq_max(_)
seq_max(xs) ==
    IF Len(xs) = 1 THEN Head(xs)
    ELSE LET m == seq_max(Tail(xs)) IN IF Head(xs) > m THEN Head(xs) ELSE m

\* _handle_zeros_in_scale: a constant column is scaled by 1.
handle_zeros_in_scale(data_range) == IF data_range = 0 THEN 1 ELSE data_range

\* scale_ = (1 - 0) / _handle_zeros_in_scale(data_max - data_min)
scale_(column) == f_div_int(1, handle_zeros_in_scale(seq_max(column) - seq_min(column)))

\* min_ = 0 - data_min * scale_
min_(column) == f_add(f_zero, f_neg(f_mul_int(seq_min(column), scale_(column))))

\* A variant that leaves min_ out.
transform_without_min(x, column) == f_mul_int(x, scale_(column))

\* transform: X *= scale_; X += min_
transform(x, column) == f_add(f_mul_int(x, scale_(column)), min_(column))

\* fit_transform on one column of integer totals
fit_transform(column) == [i \in 1..Len(column) |-> transform(column[i], column)]

(***************************************************************************)
(* Series.median(): the middle value of the sorted column, or the mean of  *)
(* the two middle values.                                                  *)
(***************************************************************************)
RECURSIVE insert_sorted(_, _)
insert_sorted(x, xs) ==
    IF xs = <<>> THEN <<x>>
    ELSE IF f_less(Head(xs), x) THEN <<Head(xs)>> \o insert_sorted(x, Tail(xs))
    ELSE <<x>> \o xs

RECURSIVE sort_values(_)
sort_values(xs) == IF xs = <<>> THEN <<>> ELSE insert_sorted(Head(xs), sort_values(Tail(xs)))

\* A variant that takes the lower of the two middle values.
median_lower(column) == sort_values(column)[(Len(column) + 1) \div 2]

median(column) ==
    LET sorted == sort_values(column)
        n == Len(column)
    IN  IF n % 2 = 1 THEN sorted[(n + 1) \div 2]
        ELSE f_half(f_add(sorted[n \div 2], sorted[n \div 2 + 1]))

(***************************************************************************)
(* Dataframes are sequences of rows (records), in index order.             *)
(***************************************************************************)
\* The values of one column.
column(df, name) == [i \in 1..Len(df) |-> df[i][name]]

\* DataFrame.dropna(subset=[name])
dropna(df, name, na) == SelectSeq(df, LAMBDA row : row[name] # na)

\* RateStars as text, and as the float it converts to (in tenths).
rate_as_float ==
    [x \in {"4,2", "4,5", "4,8"} |-> CASE x = "4,2" -> 42 [] x = "4,5" -> 45 [] x = "4,8" -> 48]

\* lambda x: x.split(',')[0] if isinstance(x, str) else 'Unknown'
organization_name(address) == IF address = NaNSeq THEN "Unknown" ELSE Head(address)

\* Lines 65-70: the rows with a rating, the rating as a float, the display name.
clean_shops(df) ==
    LET rated == dropna(df, "RateStars", NaN)
    IN  [i \in 1..Len(rated) |->
           [Id |-> rated[i].Id,
            RateStars |-> rate_as_float[rated[i].RateStars],
            OrganizationAddress |-> rated[i].OrganizationAddress,
            ReviewsTotalCount |-> rated[i].ReviewsTotalCount,
            OrganizationName |-> organization_name(rated[i].OrganizationAddress)]]

\* The rows of a left join for one shop: one per matching review, in the
\* order of the reviews, or one row without a review (its OrganizationId,
\* missing, is written 0).
merge_rows(shop, reviews) ==
    LET hits == SelectSeq(reviews, LAMBDA r : r.OrganizationId = shop.Id)
    IN  IF hits = <<>>
        THEN <<shop @@ [OrganizationId |-> 0, ReviewTextOriginal |-> NaNSeq]>>
        ELSE [i \in 1..Len(hits) |-> shop @@ hits[i]]

RECURSIVE merge_left(_, _)
\* pd.merge(df_shops, df_reviews, left_on='Id', right_on='OrganizationId', how='left')
merge_left(shops, reviews) ==
    IF shops = <<>> THEN <<>>
    ELSE merge_rows(Head(shops), reviews) \o merge_left(Tail(shops), reviews)

\* A variant that keeps the rows without a review text, the text read as empty.
merge_and_keep(shops, reviews) ==
    LET rows == merge_left(shops, reviews)
    IN  [i \in 1..Len(rows) |->
           IF rows[i].ReviewTextOriginal = NaNSeq
           THEN [rows[i] EXCEPT !.ReviewTextOriginal = <<>>]
           ELSE rows[i]]

\* Lines 73-74
merge_and_clean(shops, reviews) == dropna(merge_left(shops, reviews), "ReviewTextOriginal", NaNSeq)

\* Line 88
with_cleaned_review(df) ==
    [i \in 1..Len(df) |->
       df[i] @@ [CleanedReview |-> preprocess_text_advanced(df[i].ReviewTextOriginal)]]

\* Lines 112-113
with_review_scores(df) ==
    [i \in 1..Len(df) |->
       df[i] @@ [skor_nugas_review |->
                     calculate_weighted_score(df[i].CleanedReview, nugas_weights),
                 skor_nongkrong_review |->
                     calculate_weighted_score(df[i].CleanedReview, nongkrong_weights)]]

RECURSIVE seq_sum(_)
seq_sum(xs) == IF xs = <<>> THEN 0 ELSE Head(xs) + seq_sum(Tail(xs))

RECURSIVE sorted_ids(_)
\* The group keys in ascending order.
sorted_ids(ids) ==
    IF ids = {} THEN <<>>
    ELSE LET least == CHOOSE x \in ids : \A y \in ids : x <= y
         IN  <<least>> \o sorted_ids(ids \ {least})

\* A variant that sums over every row.
agg_group_all_rows(df, id) ==
    LET group == SelectSeq(df, LAMBDA row : row.Id = id)
    IN  [Id |-> id,
         OrganizationName |-> group[1].OrganizationName,
         RateStars |-> group[1].RateStars,
         ReviewsTotalCount |-> group[1].ReviewsTotalCount,
         Total_Skor_Nugas |-> seq_sum(column(df, "skor_nugas_review")),
         Total_Skor_Nongkrong |-> seq_sum(column(df, "skor_nongkrong_review"))]

\* One row of groupby('Id').agg({... 'first' ..., ... 'sum' ...})
agg_group(df, id) ==
    LET group == SelectSeq(df, LAMBDA row : row.Id = id)
    IN  [Id |-> id,
         OrganizationName |-> group[1].OrganizationName,
         RateStars |-> group[1].RateStars,
         ReviewsTotalCount |-> group[1].ReviewsTotalCount,
         Total_Skor_Nugas |-> seq_sum(column(group, "skor_nugas_review")),
         Total_Skor_Nongkrong |-> seq_sum(column(group, "skor_nongkrong_review"))]

\* Lines 116-123
groupby_agg(df) ==
    LET keys == sorted_ids({df[i].Id : i \in 1..Len(df)})
    IN  [k \in 1..Len(keys) |-> agg_group(df, keys[k])]

\* Lines 126-129: the two normalized columns, fitted on the whole dataframe.
with_normalized(df) ==
    LET nugas == fit_transform(column(df, "Total_Skor_Nugas"))
        nongkrong == fit_transform(column(df, "Total_Skor_Nongkrong"))
    IN  [i \in 1..Len(df) |->
           df[i] @@ [Nugas_Score_Normalized |-> nugas[i],
                     Nongkrong_Score_Normalized |-> nongkrong[i]]]

(***************************************************************************)
(* Phase 4: the segments.                                                  *)
(***************************************************************************)
median_nugas(df) == median(column(df, "Nugas_Score_Normalized"))
median_nongkrong(df) == median(column(df, "Nongkrong_Score_Normalized"))

\* A variant with a strict comparison.
is_high_strict(score, med) == f_less(med, score)

is_high(score, med) == f_geq(score, med)

\* A variant in which a score is high only above the median.
assign_segment_above(row, med_nugas, med_nongkrong) ==
    LET is_nugas_high == f_less(med_nugas, row.Nugas_Score_Normalized)
        is_nongkrong_high == f_less(med_nongkrong, row.Nongkrong_Score_Normalized)
    IN  IF is_nugas_high /\ is_nongkrong_high THEN "All-Rounder"
        ELSE IF is_nugas_high /\ ~is_nongkrong_high THEN "Productivity Hub"
        ELSE IF ~is_nugas_high /\ is_nongkrong_high THEN "Social Hotspot"
        ELSE "General Purpose"

assign_segment(row, med_nugas, med_nongkrong) ==
    LET is_nugas_high == is_high(row.Nugas_Score_Normalized, med_nugas)
        is_nongkrong_high == is_high(row.Nongkrong_Score_Normalized, med_nongkrong)
    IN  IF is_nugas_high /\ is_nongkrong_high THEN "All-Rounder"
        ELSE IF is_nugas_high /\ ~is_nongkrong_high THEN "Productivity Hub"
        ELSE IF ~is_nugas_high /\ is_nongkrong_high THEN "Social Hotspot"
        ELSE "General Purpose"

\* A variant that keeps the shops of the three recommended segments only.
with_segment_recommended(df) ==
    SelectSeq([i \in 1..Len(df) |->
                 df[i] @@ [Segment |->
                     assign_segment(df[i], median_nugas(df), median_nongkrong(df))]],
              LAMBDA row : row.Segment # "General Purpose")

\* Line 54
with_segment(df) ==
    [i \in 1..Len(df) |->
       df[i] @@ [Segment |-> assign_segment(df[i], median_nugas(df), median_nongkrong(df))]]

(***************************************************************************)
(* The recommendations of phase 4: the shops of one segment, sorted by     *)
(* rating and then by number of reviews, both descending, and the first    *)
(* top_n of them.  sort_values on several columns is a stable sort: rows   *)
(* that agree on both keep their order.                                    *)
(***************************************************************************)
top_n == 3

\* df[df['Segment'] == segment_name]
in_segment(df, segment_name) == SelectSeq(df, LAMBDA row : row.Segment = segment_name)

\* A variant that looks at the rating only.
sorts_before_by_rating(a, b) == a.RateStars > b.RateStars

\* by=['RateStars', 'ReviewsTotalCount'], ascending=[False, False]
sorts_before(a, b) ==
    \/ a.RateStars > b.RateStars
    \/ a.RateStars = b.RateStars /\ a.ReviewsTotalCount > b.ReviewsTotalCount

RECURSIVE insert_row(_, _)
\* row goes behind every row of the sorted rows that it does not precede.
insert_row(rows, row) ==
    IF rows = <<>> THEN <<row>>
    ELSE IF sorts_before(row, Head(rows)) THEN <<row>> \o rows
    ELSE <<Head(rows)>> \o insert_row(Tail(rows), row)

RECURSIVE sort_by_rating_and_reviews(_)
sort_by_rating_and_reviews(df) ==
    IF df = <<>> THEN <<>>
    ELSE insert_row(sort_by_rating_and_reviews(SubSeq(df, 1, Len(df) - 1)), df[Len(df)])

head(df, n) == SubSeq(df, 1, IF Len(df) < n THEN Len(df) ELSE n)

\* Lines 60-65
get_top_shops_in_segment(df, segment_name, n) ==
    head(sort_by_rating_and_reviews(in_segment(df, segment_name)), n)

(***************************************************************************)
(* The two scripts, step by step.                                          *)
(***************************************************************************)
\* A loader that goes on with empty tables when a file is missing.
LoadDataLenient ==
    /\ pc = "start"
    /\ pc4 \in {"start", "failed", "done"}
    /\ pc' = "loaded"
    /\ df_shops' = shops_file.rows
    /\ df_reviews' = reviews_file.rows
    /\ UNCHANGED <<pc4, shops_file, reviews_file, df_merged, shop_scores,
                   scores_file, df_scores, final_file, top_shops>>

\* Lines 56-62 of phase 3.  The shops file is read first: when only the
\* reviews file is missing, df_shops has been read by the time of exit().
LoadData ==
    /\ pc = "start"
    /\ pc4 \in {"start", "failed", "done"}
    /\ IF ~shops_file.exists \/ ~reviews_file.exists
       THEN /\ pc' = "failed"
            /\ df_shops' = IF shops_file.exists THEN shops_file.rows ELSE df_shops
            /\ UNCHANGED df_reviews
       ELSE /\ pc' = "loaded"
            /\ df_shops' = shops_file.rows
            /\ df_reviews' = reviews_file.rows
    /\ UNCHANGED <<pc4, shops_file, reviews_file, df_merged, shop_scores,
                   scores_file, df_scores, final_file, top_shops>>

\* Lines 65-70
CleanShops ==
    /\ pc = "loaded"
    /\ df_shops' = clean_shops(df_shops)
    /\ pc' = "cleaned"
    /\ UNCHANGED <<pc4, shops_file, reviews_file, df_reviews, df_merged, shop_scores,
                   scores_file, df_scores, final_file, top_shops>>

\* Lines 73-74
Merge ==
    /\ pc = "cleaned"
    /\ df_merged' = merge_and_clean(df_shops, df_reviews)
    /\ pc' = "merged"
    /\ UNCHANGED <<pc4, shops_file, reviews_file, df_shops, df_reviews, shop_scores,
                   scores_file, df_scores, final_file, top_shops>>

\* Line 88
Preprocess ==
    /\ pc = "merged"
    /\ df_merged' = with_cleaned_review(df_merged)
    /\ pc' = "preprocessed"
    /\ UNCHANGED <<pc4, shops_file, reviews_file, df_shops, df_reviews, shop_scores,
                   scores_file, df_scores, final_file, top_shops>>

\* Lines 112-113
ScoreReviews ==
    /\ pc = "preprocessed"
    /\ df_merged' = with_review_scores(df_merged)
    /\ pc' = "scored"
    /\ UNCHANGED <<pc4, shops_file, reviews_file, df_shops, df_reviews, shop_scores,
                   scores_file, df_scores, final_file, top_shops>>

\* Lines 116-123
Aggregate ==
    /\ pc = "scored"
    /\ shop_scores' = groupby_agg(df_merged)
    /\ pc' = "aggregated"
    /\ UNCHANGED <<pc4, shops_file, reviews_file, df_shops, df_reviews, df_merged,
                   scores_file, df_scores, final_file, top_shops>>

\* Lines 126-129.  fit_transform raises ValueError on a dataframe without rows.
Scale ==
    /\ pc = "aggregated"
    /\ IF shop_scores = <<>>
       THEN /\ pc' = "crashed"
            /\ UNCHANGED shop_scores
       ELSE /\ pc' = "scaled"
            /\ shop_scores' = with_normalized(shop_scores)
    /\ UNCHANGED <<pc4, shops_file, reviews_file, df_shops, df_reviews, df_merged,
                   scores_file, df_scores, final_file, top_shops>>

\* Lines 135-176: the plot, then to_csv
SaveScores ==
    /\ pc = "scaled"
    /\ scores_file' = file_of(shop_scores)
    /\ pc' = "done"
    /\ UNCHANGED <<pc4, shops_file, reviews_file, df_shops, df_reviews, df_merged,
                   shop_scores, df_scores, final_file, top_shops>>

\* Lines 24-30 of phase 4
LoadScores ==
    /\ pc4 = "start"
    /\ pc \in {"start", "failed", "crashed", "done"}
    /\ IF ~scores_file.exists
       THEN /\ pc4' = "failed"
            /\ UNCHANGED df_scores
       ELSE /\ pc4' = "loaded"
            /\ df_scores' = scores_file.rows
    /\ UNCHANGED <<pc, shops_file, reviews_file, df_shops, df_reviews, df_merged,
                   shop_scores, scores_file, final_file, top_shops>>

\* Lines 36-54
Segment ==
    /\ pc4 = "loaded"
    /\ df_scores' = with_segment(df_scores)
    /\ pc4' = "segmented"
    /\ UNCHANGED <<pc, shops_file, reviews_file, df_shops, df_reviews, df_merged,
                   shop_scores, scores_file, final_file, top_shops>>

\* Lines 68-70
TopShops ==
    /\ pc4 = "segmented"
    /\ top_nugas_shops' = get_top_shops_in_segment(df_scores, "Productivity Hub", top_n)
    /\ top_nongkrong_shops' = get_top_shops_in_segment(df_scores, "Social Hotspot", top_n)
    /\ top_all_rounder_shops' = get_top_shops_in_segment(df_scores, "All-Rounder", top_n)
    /\ pc4' = "ranked"
    /\ UNCHANGED <<pc, shops_file, reviews_file, df_shops, df_reviews, df_merged,
                   shop_scores, scores_file, df_scores, final_file>>

\* Lines 78-115: the printed recommendations, then to_csv
SaveSegments ==
    /\ pc4 = "ranked"
    /\ final_file' = file_of(df_scores)
    /\ pc4' = "done"
    /\ UNCHANGED <<pc, shops_file, reviews_file, df_shops, df_reviews, df_merged,
                   shop_scores, scores_file, df_scores, top_shops>>

\* Phase 3, then phase 4, each run once and one at a time.
Next ==
    \/ LoadData \/ CleanShops \/ Merge \/ Preprocess \/ ScoreReviews
    \/ Aggregate \/ Scale \/ SaveScores
    \/ LoadScores \/ Segment \/ TopShops \/ SaveSegments

(***************************************************************************)
(* Inputs.                                                                 *)
(***************************************************************************)
MaxShops == 2
MaxReviews == 2

shop_names == <<"Kopi Satu", "Kopi Dua", "Kopi Tiga", "Kopi Empat", "Kopi Lima", "Kopi Enam">>

\* One row of the shops file; the second shop has no address.
shop_row(id, rate) ==
    [Id |-> id,
     RateStars |-> rate,
     OrganizationAddress |->
         IF id = 2 \/ id > Len(shop_names) THEN NaNSeq ELSE <<shop_names[id], "Yogyakarta">>,
     ReviewsTotalCount |-> 10 * id]

rate_of(id) == IF id % 3 = 1 THEN "4,5" ELSE IF id % 3 = 2 THEN "4,8" ELSE "4,2"

\* The shops files: shops 1..n, each with or without a rating.
ShopTables ==
    UNION {{[i \in 1..n |-> shop_row(i, IF i \in rated THEN rate_of(i) ELSE NaN)] :
              rated \in SUBSET (1..n)} : n \in 1..MaxShops}

text_productive == <<"W","i","f","i"," ","k","e","n","c","a","n","g",","," ","t","u","g","a","s","!">>
text_social == <<"T","e","m","a","n","n","y","a"," ","r","a","m","a","i">>
text_plain == <<"t","e","m","p","a","t"," ","k","o","p","i">>

ReviewTexts == {text_productive, text_social, text_plain}

\* The rows of a reviews file: a review of a listed shop or of an unlisted
\* one, with a text or without.
ReviewRows ==
    [OrganizationId : 1..(MaxShops + 1), ReviewTextOriginal : ReviewTexts \cup {NaNSeq}]

RECURSIVE SeqsUpTo(_, _)
\* The sequences over S of length at most n.
SeqsUpTo(S, n) ==
    IF n = 0 THEN {<<>>}
    ELSE LET shorter == SeqsUpTo(S, n - 1)
         IN  shorter \cup {Append(q, x) : q \in shorter, x \in S}

ReviewTables == SeqsUpTo(ReviewRows, MaxReviews)

Blank == <<>>

Init ==
    /\ pc = "start"
    /\ pc4 = "start"
    /\ shops_file \in {file_of(t) : t \in ShopTables} \cup {Absent}
    /\ reviews_file \in {file_of(t) : t \in ReviewTables} \cup {Absent}
    /\ df_shops = Blank
    /\ df_reviews = Blank
    /\ df_merged = Blank
    /\ shop_scores = Blank
    /\ scores_file = Absent
    /\ df_scores = Blank
    /\ final_file = Absent
    /\ top_nugas_shops = Blank
    /\ top_nongkrong_shops = Blank
    /\ top_all_rounder_shops = Blank

Spec == Init /\ [][Next]_vars

(***************************************************************************)
(* The text functions on their own: one shop with one review, whose text   *)
(* is any concatenation of at most MaxPieces pieces, taken after the merge *)
(* and followed through preprocessing and scoring.                         *)
(***************************************************************************)
MaxPieces == 4

TextPieces == {<<"W","i","f","i">>, <<"t","e","m","a","n">>, <<"n","y","a">>, <<"d","i">>, <<",">>, <<" ">>, <<"\n">>}

RECURSIVE Texts(_)
Texts(n) ==
    IF n = 0 THEN {<<>>}
    ELSE LET shorter == Texts(n - 1)
         IN  shorter \cup {t \o piece : t \in shorter, piece \in TextPieces}

\* The state of phase 3 after the merge of the given files.
AfterMerge(shops, reviews) ==
    /\ pc = "merged"
    /\ pc4 = "start"
    /\ shops_file = file_of(shops)
    /\ reviews_file = file_of(reviews)
    /\ df_shops = clean_shops(shops)
    /\ df_reviews = reviews
    /\ df_merged = merge_and_clean(clean_shops(shops), reviews)
    /\ shop_scores = Blank
    /\ scores_file = Absent
    /\ df_scores = Blank
    /\ final_file = Absent
    /\ top_nugas_shops = Blank
    /\ top_nongkrong_shops = Blank
    /\ top_all_rounder_shops = Blank

InitText ==
    \E text \in Texts(MaxPieces) :
        AfterMerge(<<shop_row(1, rate_of(1))>>,
                   <<[OrganizationId |-> 1, ReviewTextOriginal |-> text]>>)

NextText == Preprocess \/ ScoreReviews

SpecText == InitText /\ [][NextText]_vars

(***************************************************************************)
(* Scaling and segmentation on their own: shops 1..n, each with one review *)
(* that repeats keywords as often as the shop's totals say, taken after    *)
(* the aggregation.                                                        *)
(***************************************************************************)
RECURSIVE repeat(_, _)
repeat(word, n) == IF n = 0 THEN <<>> ELSE word \o <<" ">> \o repeat(word, n - 1)

\* A review whose scores are a and b: 'wifi' weighs 3 and 'buku' 1 for
\* nugas, 'betah' weighs 1 for nongkrong, 'ok' weighs nothing.
review_text(a, b) ==
    repeat(<<"w","i","f","i">>, a \div 3) \o repeat(<<"b","u","k","u">>, a % 3) \o repeat(<<"b","e","t","a","h">>, b) \o <<"o","k">>

\* The state of phase 3 after the aggregation, for shops whose totals are
\* totals[i] = <<nugas, nongkrong>>.
AfterAggregate(totals) ==
    LET shops == [i \in 1..Len(totals) |-> shop_row(i, rate_of(i))]
        reviews == [i \in 1..Len(totals) |->
                      [OrganizationId |-> i,
                       ReviewTextOriginal |-> review_text(totals[i][1], totals[i][2])]]
    IN  /\ pc = "aggregated"
        /\ pc4 = "start"
        /\ shops_file = file_of(shops)
        /\ reviews_file = file_of(reviews)
        /\ df_shops = clean_shops(shops)
        /\ df_reviews = reviews
        /\ df_merged = with_review_scores(with_cleaned_review(
                           merge_and_clean(clean_shops(shops), reviews)))
        /\ shop_scores = groupby_agg(df_merged)
        /\ scores_file = Absent
        /\ df_scores = Blank
        /\ final_file = Absent
        /\ top_nugas_shops = Blank
        /\ top_nongkrong_shops = Blank
        /\ top_all_rounder_shops = Blank

NextScale == Scale \/ SaveScores \/ LoadScores \/ Segment \/ TopShops \/ SaveSegments

\* Up to MaxVenues shops with nugas totals up to MaxTotal, and the three
\* shops of the worked example.
MaxVenues == 3
MaxTotal == 6
nongkrong_totals == {0, 1}

example_totals == <<(<<10, 0>>), (<<20, 1>>), (<<30, 0>>)>>

InitScale ==
    \E totals \in (SeqsUpTo((0..MaxTotal) \X nongkrong_totals, MaxVenues) \ {<<>>})
                      \cup {example_totals} :
        AfterAggregate(totals)

SpecScale == InitScale /\ [][NextScale]_vars

\* Up to MaxSegVenues shops with small totals.
MaxSegVenues == 4
MaxSegTotal == 2

InitSegment ==
    \E totals \in SeqsUpTo((0..MaxSegTotal) \X nongkrong_totals, MaxSegVenues) \ {<<>>} :
        AfterAggregate(totals)

SpecSegment == InitSegment /\ [][NextScale]_vars

(***************************************************************************)
(* Properties of the text functions (SpecText).                            *)
(***************************************************************************)
MaxRepeat == 3

\* The number of occurrences of the word (a string) among the tokens.
occurrences(word, tokens) == Cardinality({i \in 1..Len(tokens) : Str(tokens[i]) = word})

RECURSIVE weighted_occurrences(_, _, _)
\* The sum, over the keys, of weight times number of occurrences.
weighted_occurrences(keys, weights, tokens) ==
    IF keys = {} THEN 0
    ELSE LET k == CHOOSE x \in keys : TRUE
         IN  weights[k] * occurrences(k, tokens)
             + weighted_occurrences(keys \ {k}, weights, tokens)

\* Tokens added to a cleaned review: a keyword of either table, a word of neither.
ProbeTokens == {<<"w","i","f","i">>, <<"t","e","m","a","n">>, <<"e","n","a","k">>}

RECURSIVE appended(_, _, _)
\* The text followed by k further occurrences of the token.
appended(text, token, k) ==
    IF k = 0 THEN text ELSE appended(text \o <<" ">> \o token, token, k - 1)

\* C1: each review score is the sum over the keys of its own table of weight
\* times number of occurrences in the cleaned review, and k further
\* occurrences of a token t raise it by exactly k * weights.get(t, 0).
C1_ScoreIsLinearInOccurrences ==
    pc = "scored" =>
        \A i \in 1..Len(df_merged) :
            LET row == df_merged[i]
                tokens == split(row.CleanedReview)
            IN  /\ row.skor_nugas_review =
                       weighted_occurrences(DOMAIN nugas_weights, nugas_weights, tokens)
                /\ row.skor_nongkrong_review =
                       weighted_occurrences(DOMAIN nongkrong_weights, nongkrong_weights, tokens)
                /\ \A t \in ProbeTokens : \A k \in 0..MaxRepeat :
                       /\ calculate_weighted_score(appended(row.CleanedReview, t, k),
                                                   nugas_weights)
                              = row.skor_nugas_review + k * weight_get(nugas_weights, Str(t))
                       /\ calculate_weighted_score(appended(row.CleanedReview, t, k),
                                                   nongkrong_weights)
                              = row.skor_nongkrong_review
                                    + k * weight_get(nongkrong_weights, Str(t))

\* A scored review in which a keyword of the nugas table occurs twice.
C1_Witness ==
    /\ pc = "scored"
    /\ \E i \in 1..Len(df_merged) :
           /\ occurrences("wifi", split(df_merged[i].CleanedReview)) = 2
           /\ df_merged[i].skor_nugas_review = 6
           /\ df_merged[i].skor_nongkrong_review = 0

\* The letters of a piece of raw text, lowercased.
letters_of(chunk) == SelectSeq(lower(chunk), LAMBDA c : c \in Letters)

\* What the cleaned review holds when it is worked out word by word: the
\* raw text is cut at whitespace only, each piece is reduced to its letters,
\* pieces without letters vanish, each word is stemmed and stop words go.
words_by_chunk(text) ==
    LET chunks == split(text)
        words == SelectSeq([i \in 1..Len(chunks) |-> letters_of(chunks[i])],
                           LAMBDA w : w # <<>>)
        stems == [i \in 1..Len(words) |-> stem_word(words[i])]
    IN  SelectSeq(stems, LAMBDA w : Str(w) \notin stopwords_indonesian)

\* The raw text with a space in place of every character that is neither a
\* letter nor whitespace.
separated(text) ==
    [i \in 1..Len(text) |->
       IF lower_char(text[i]) \in Letters \cup Whitespace THEN text[i] ELSE " "]

\* C8 as claimed: a character that is neither a lowercase letter nor
\* whitespace separates tokens, so the cleaned review is the one of the text
\* with a space in the place of each such character.
C8_NonLettersSeparateTokens ==
    pc = "preprocessed" =>
        \A i \in 1..Len(df_merged) :
            df_merged[i].CleanedReview =
                preprocess_text_advanced(separated(df_merged[i].ReviewTextOriginal))

\* C8 as amended: such a character is deleted and separates nothing; the
\* tokens are cut at whitespace only, and letters on both sides of it end up
\* in one token.
C8_NonLettersAreDeleted ==
    pc = "preprocessed" =>
        \A i \in 1..Len(df_merged) :
            split(df_merged[i].CleanedReview) = words_by_chunk(df_merged[i].ReviewTextOriginal)

\* A review with a comma between two letters, cleaned to a single token.
C8_Witness ==
    /\ pc = "preprocessed"
    /\ \E i \in 1..Len(df_merged) :
           LET text == df_merged[i].ReviewTextOriginal
           IN  /\ \E j \in 2..(Len(text) - 1) :
                      /\ text[j] = ","
                      /\ lower_char(text[j - 1]) \in Letters
                      /\ lower_char(text[j + 1]) \in Letters
               /\ Len(split(df_merged[i].CleanedReview)) = 1

\* The tokens of the lowercased, letter-only, stemmed text.
stemmed_tokens(text) == split(stem(sub_non_letters(lower(text))))

\* The maximal runs of letters of the lowercased text.
letter_runs(text) ==
    LET low == lower(text)
    IN  SplitFrom(low, {low[i] : i \in 1..Len(low)} \ Letters, 1, 1, FALSE)

\* The cleaned review holds, in order, the tokens of the stemmed text that
\* are no stop words; none of its tokens is a stop word or empty.
tokens_are_filtered(row) ==
    LET out == split(row.CleanedReview)
    IN  /\ out = SelectSeq(stemmed_tokens(row.ReviewTextOriginal),
                           LAMBDA w : Str(w) \notin stopwords_indonesian)
        /\ row.CleanedReview = join(out)
        /\ \A j \in 1..Len(out) : out[j] # <<>> /\ Str(out[j]) \notin stopwords_indonesian

\* C9 as claimed: the filtered tokens, and the empty sequence for a text
\* that is empty or made of stop words and punctuation only.
C9_StopwordsAndPunctuationGiveNothing ==
    pc = "preprocessed" =>
        \A i \in 1..Len(df_merged) :
            LET row == df_merged[i]
                runs == letter_runs(row.ReviewTextOriginal)
            IN  /\ tokens_are_filtered(row)
                /\ (\A j \in 1..Len(runs) : Str(runs[j]) \in stopwords_indonesian)
                       => row.CleanedReview = <<>>

\* C9 as amended: the filtered tokens, and the empty sequence for a text
\* that is empty or whose whitespace-separated pieces, reduced to their
\* letters and stemmed, are all stop words or without letters.
C9_FilteredTokens ==
    pc = "preprocessed" =>
        \A i \in 1..Len(df_merged) :
            LET row == df_merged[i]
                chunks == split(row.ReviewTextOriginal)
            IN  /\ tokens_are_filtered(row)
                /\ (\A j \in 1..Len(chunks) :
                        \/ letters_of(chunks[j]) = <<>>
                        \/ Str(stem_word(letters_of(chunks[j]))) \in stopwords_indonesian)
                       => row.CleanedReview = <<>>

\* A review of stop words, whitespace and punctuation only, cleaned to nothing.
C9_Witness ==
    /\ pc = "preprocessed"
    /\ \E i \in 1..Len(df_merged) :
           LET text == df_merged[i].ReviewTextOriginal
           IN  /\ Len(stemmed_tokens(text)) = 2
               /\ \E j \in 1..Len(text) : text[j] = ","
               /\ df_merged[i].CleanedReview = <<>>

(***************************************************************************)
(* Properties of the aggregation (Spec).                                   *)
(***************************************************************************)
\* The set of the values of a sequence.
Range(xs) == {xs[i] : i \in 1..Len(xs)}

\* The shops of the shops file that have a rating and at least one review
\* with a text in the reviews file.
qualifying_ids ==
    {shop.Id : shop \in {x \in Range(shops_file.rows) :
                            /\ x.RateStars # NaN
                            /\ \E r \in Range(reviews_file.rows) :
                                   /\ r.OrganizationId = x.Id
                                   /\ r.ReviewTextOriginal # NaNSeq}}

\* One row for each qualifying shop, and no other row.
one_row_per_qualifying(df) ==
    /\ Range(column(df, "Id")) = qualifying_ids
    /\ \A i, j \in 1..Len(df) : df[i].Id = df[j].Id => i = j

\* C6: the aggregates, and everything scaled, saved, loaded and segmented
\* from them, hold exactly one row for each shop with at least one review
\* with a text after the join, and no row for any other shop.
C6_OnlyReviewedShops ==
    /\ pc \in {"aggregated", "scaled", "done"} => one_row_per_qualifying(shop_scores)
    /\ scores_file.exists => one_row_per_qualifying(scores_file.rows)
    /\ pc4 \in {"loaded", "segmented", "ranked", "done"} => one_row_per_qualifying(df_scores)
    /\ final_file.exists => one_row_per_qualifying(final_file.rows)

\* Both phases have run, for two rated shops of which one has no review with
\* a text: the segmented file holds the other one only.
C6_Witness ==
    /\ pc4 = "done"
    /\ final_file.exists
    /\ Len(df_shops) = 2
    /\ Cardinality(qualifying_ids) = 1
    /\ Len(final_file.rows) = 1
    /\ \A i \in 1..Len(final_file.rows) : final_file.rows[i].Segment = "All-Rounder"

RECURSIVE sum_at(_, _, _)
\* The sum of a column over a set of row numbers.
sum_at(df, name, rows) ==
    IF rows = {} THEN 0
    ELSE LET i == CHOOSE x \in rows : TRUE
         IN  df[i][name] + sum_at(df, name, rows \ {i})

\* The totals of an aggregate, shop by shop.
totals_of(agg) ==
    {<<agg[k].Id, agg[k].Total_Skor_Nugas, agg[k].Total_Skor_Nongkrong>> : k \in 1..Len(agg)}

\* C7: a shop's totals are the sums of the review scores over exactly the
\* rows that carry its Id, every row counts in one total, and the totals
\* are the same for every order of the rows.
C7_TotalsAreGroupSums ==
    pc = "aggregated" =>
        /\ \A k \in 1..Len(shop_scores) :
               LET own == {i \in 1..Len(df_merged) : df_merged[i].Id = shop_scores[k].Id}
               IN  /\ shop_scores[k].Total_Skor_Nugas
                          = sum_at(df_merged, "skor_nugas_review", own)
                   /\ shop_scores[k].Total_Skor_Nongkrong
                          = sum_at(df_merged, "skor_nongkrong_review", own)
        /\ seq_sum(column(shop_scores, "Total_Skor_Nugas"))
               = sum_at(df_merged, "skor_nugas_review", 1..Len(df_merged))
        /\ seq_sum(column(shop_scores, "Total_Skor_Nongkrong"))
               = sum_at(df_merged, "skor_nongkrong_review", 1..Len(df_merged))
        /\ \A order \in Permutations(1..Len(df_merged)) :
               totals_of(groupby_agg([i \in 1..Len(df_merged) |-> df_merged[order[i]]]))
                   = totals_of(shop_scores)

\* Two shops, one review each with different scores, aggregated.
C7_Witness ==
    /\ pc = "aggregated"
    /\ Len(df_merged) = 2
    /\ totals_of(shop_scores) = {<<1, 6, 0>>, <<2, 0, 4>>}

(***************************************************************************)
(* Properties of the scaling (SpecScale).                                  *)
(***************************************************************************)
\* The columns of raw totals with their normalized columns.
persona_columns ==
    {<<"Total_Skor_Nugas", "Nugas_Score_Normalized">>,
     <<"Total_Skor_Nongkrong", "Nongkrong_Score_Normalized">>}

C3_NormalizedInUnitInterval ==
    pc = "scaled" =>
        \A cols \in persona_columns :
            LET totals == column(shop_scores, cols[1])
            IN  \A i \in 1..Len(shop_scores) :
                    LET v == shop_scores[i][cols[2]]
                    IN  /\ f_geq(v, f_zero)
                        /\ f_geq(f_one, v)
                        /\ seq_min(totals) = seq_max(totals) => v = f_zero

(***************************************************************************)
(* Properties of the segmentation (SpecSegment).                           *)
(***************************************************************************)
\* The k-th smallest value of a column, found by counting.
kth_smallest(values, k) ==
    CHOOSE v \in Range(values) :
        /\ Cardinality({i \in 1..Len(values) : f_less(values[i], v)}) < k
        /\ Cardinality({i \in 1..Len(values) : ~f_less(v, values[i])}) >= k

\* v >= the median of the (non-negative) values, in exact arithmetic: the
\* middle value, or half the sum of the two middle values.
at_least_median(v, values) ==
    LET n == Len(values)
    IN  IF n % 2 = 1 THEN ~f_less(v, kth_smallest(values, (n + 1) \div 2))
        ELSE m_leq(m_add(kth_smallest(values, n \div 2).mag,
                         kth_smallest(values, n \div 2 + 1).mag),
                   m_mul_small(v.mag, 2))

segment_of(nugas_high, nongkrong_high) ==
    CASE nugas_high /\ nongkrong_high -> "All-Rounder"
      [] nugas_high /\ ~nongkrong_high -> "Productivity Hub"
      [] ~nugas_high /\ nongkrong_high -> "Social Hotspot"
      [] ~nugas_high /\ ~nongkrong_high -> "General Purpose"

\* C4: each shop gets the one segment that the table gives for (nugas score
\* >= median, nongkrong score >= median), the medians being those of the
\* whole dataframe and a score equal to the median counting as high.
C4_SegmentByMedians ==
    pc4 = "segmented" =>
        \A i \in 1..Len(df_scores) :
            df_scores[i].Segment =
                segment_of(at_least_median(df_scores[i].Nugas_Score_Normalized,
                                           column(df_scores, "Nugas_Score_Normalized")),
                           at_least_median(df_scores[i].Nongkrong_Score_Normalized,
                                           column(df_scores, "Nongkrong_Score_Normalized")))

\* Four shops, one with a nugas score equal to the median and labelled high,
\* one labelled General Purpose.
C4_Witness ==
    /\ pc4 = "segmented"
    /\ Len(df_scores) = 4
    /\ \E i \in 1..Len(df_scores) :
           /\ df_scores[i].Nugas_Score_Normalized = median_nugas(df_scores)
           /\ df_scores[i].Nugas_Score_Normalized = f_half(f_one)
           /\ df_scores[i].Segment \in {"All-Rounder", "Productivity Hub"}
    /\ \E i \in 1..Len(df_scores) : df_scores[i].Segment = "General Purpose"

\* The number of shops with one of the segments.
count_in(df, segments) == Cardinality({i \in 1..Len(df) : df[i].Segment \in segments})

\* C5: for either persona, at least half of the shops are classified high.
C5_UpperHalfIsHalf ==
    pc4 = "segmented" =>
        /\ 2 * count_in(df_scores, {"All-Rounder", "Productivity Hub"}) >= Len(df_scores)
        /\ 2 * count_in(df_scores, {"All-Rounder", "Social Hotspot"}) >= Len(df_scores)

\* Four shops of which exactly two are high for nugas and two for nongkrong.
C5_Witness ==
    /\ pc4 = "segmented"
    /\ Len(df_scores) = 4
    /\ count_in(df_scores, {"All-Rounder", "Productivity Hub"}) = 2
    /\ count_in(df_scores, {"All-Rounder", "Social Hotspot"}) = 2

aggregate_fields ==
    {"Id", "OrganizationName", "RateStars", "ReviewsTotalCount",
     "Total_Skor_Nugas", "Total_Skor_Nongkrong"}

normalized_fields == {"Nugas_Score_Normalized", "Nongkrong_Score_Normalized"}

\* The rows of new are those of old, in the same order, with the same values
\* in the given fields.
same_rows(old, new, fields) ==
    /\ Len(new) = Len(old)
    /\ \A i \in 1..Len(old) : \A f \in fields : new[i][f] = old[i][f]

\* C10: scaling keeps the rows, their order and the six aggregate fields;
\* segmenting keeps the rows, their order, the aggregate fields and the two
\* normalized scores, and touches neither the aggregates of phase 3 nor the
\* scores file; the scaled aggregates do not change afterwards.
C10_StagesKeepWhatTheyRead ==
    [][/\ (pc = "aggregated" /\ pc' = "scaled")
              => same_rows(shop_scores, shop_scores', aggregate_fields)
       /\ (pc4 = "loaded" /\ pc4' = "segmented")
              => /\ same_rows(df_scores, df_scores',
                              aggregate_fields \cup normalized_fields)
                 /\ shop_scores' = shop_scores
                 /\ scores_file' = scores_file
       /\ pc \in {"scaled", "done"} => shop_scores' = shop_scores]_vars

\* Four shops segmented into four segments, with the fields as saved by phase 3.
C10_Witness ==
    /\ pc4 = "segmented"
    /\ Len(df_scores) = 4
    /\ Cardinality({df_scores[i].Segment : i \in 1..Len(df_scores)}) = 4
    /\ same_rows(scores_file.rows, df_scores, aggregate_fields \cup normalized_fields)
    /\ same_rows(shop_scores, df_scores, aggregate_fields \cup normalized_fields)

(***************************************************************************)
(* Missing inputs (Spec).                                                  *)
(***************************************************************************)
missing_input == ~shops_file.exists \/ ~reviews_file.exists

phase3_steps == CleanShops \/ Merge \/ Preprocess \/ ScoreReviews \/ Aggregate \/ Scale \/ SaveScores

phase4_steps == Segment \/ TopShops \/ SaveSegments

\* C11: when the shops or the reviews file is missing, phase 3 stops at the
\* load, in its failed state and for good, with nothing merged, scored or
\* scaled and no scores file written; when the scores file is missing, phase 4
\* stops at the load in the same way, with nothing segmented and no final
\* file written; and phase 4 gets past its load only when phase 3 has run to
\* its end and written the scores file that phase 4 reads.
C11_MissingInputIsFatal ==
    /\ missing_input =>
          /\ pc \in {"start", "failed"}
          /\ df_merged = Blank /\ shop_scores = Blank
          /\ ~scores_file.exists
    /\ pc = "failed" => missing_input /\ ~ENABLED (LoadData \/ phase3_steps)
    /\ ~scores_file.exists =>
          /\ pc4 \in {"start", "failed"}
          /\ df_scores = Blank
          /\ ~final_file.exists
    /\ pc4 = "failed" =>
          /\ df_scores = Blank /\ ~final_file.exists
          /\ ~ENABLED (LoadScores \/ phase4_steps)
    /\ pc4 \in {"loaded", "segmented", "ranked", "done"} =>
          /\ pc = "done"
          /\ scores_file = file_of(shop_scores)

\* The shops file is there and the reviews file is not: phase 3 has failed,
\* and phase 4, run after it, has failed for want of the scores file.
C11_Witness ==
    /\ shops_file.exists /\ ~reviews_file.exists
    /\ pc = "failed" /\ pc4 = "failed"
    /\ df_shops = shops_file.rows /\ df_shops # Blank

(***************************************************************************)
(* The recommendations (SpecSegment).                                      *)
(***************************************************************************)
segment_names == {"All-Rounder", "Productivity Hub", "Social Hotspot", "General Purpose"}

\* a has a strictly higher (rating, review count) than b.
strictly_higher(a, b) ==
    \/ a.RateStars > b.RateStars
    \/ a.RateStars = b.RateStars /\ a.ReviewsTotalCount > b.ReviewsTotalCount

\* top is a best choice of at most three shops of the segment in df.
is_top_of(top, df, segment_name) ==
    LET members == {i \in 1..Len(df) : df[i].Segment = segment_name}
        chosen == {top[k].Id : k \in 1..Len(top)}
    IN  /\ Len(top) = (IF Cardinality(members) < 3 THEN Cardinality(members) ELSE 3)
        /\ Cardinality(chosen) = Len(top)
        /\ \A k \in 1..Len(top) :
              /\ top[k].Segment = segment_name
              /\ \E i \in members : df[i] = top[k]
        /\ \A j, k \in 1..Len(top) : j < k => ~strictly_higher(top[k], top[j])
        /\ \A i \in members :
              df[i].Id \notin chosen =>
                  \A k \in 1..Len(top) : ~strictly_higher(df[i], top[k])

\* C12: once the shops are segmented, get_top_shops_in_segment gives, for
\* each of the four segment names, min(3, size of the segment) distinct shops
\* of that segment, by rating descending and then by review count descending,
\* and no shop of the segment that is left out has a strictly higher
\* (rating, review count) than a shop that is returned; the three lists the
\* script builds are such choices for their segments.
C12_TopShopsAreTheBest ==
    /\ pc4 \in {"segmented", "ranked", "done"} =>
          \A s \in segment_names :
              is_top_of(get_top_shops_in_segment(df_scores, s, 3), df_scores, s)
    /\ pc4 \in {"ranked", "done"} =>
          /\ is_top_of(top_nugas_shops, df_scores, "Productivity Hub")
          /\ is_top_of(top_nongkrong_shops, df_scores, "Social Hotspot")
          /\ is_top_of(top_all_rounder_shops, df_scores, "All-Rounder")

\* Four all-rounders, two of them with the same rating: the three returned
\* are the best rated, the one with more reviews first of the two, and the
\* worst rated is left out.
C12_Witness ==
    /\ pc4 = "ranked"
    /\ Len(in_segment(df_scores, "All-Rounder")) = 4
    /\ Len(top_all_rounder_shops) = 3
    /\ top_all_rounder_shops[2].RateStars = top_all_rounder_shops[3].RateStars
    /\ top_all_rounder_shops[2].ReviewsTotalCount > top_all_rounder_shops[3].ReviewsTotalCount
    /\ top_all_rounder_shops[1].RateStars > top_all_rounder_shops[2].RateStars
    /\ top_all_rounder_shops[2].Id > top_all_rounder_shops[3].Id

(***************************************************************************)
(* Populations without any spread (SpecScale).                             *)
(***************************************************************************)
\* Every shop of df has the same total for nugas, and every shop has the
\* same total for nongkrong.
all_totals_equal(df) ==
    \A i, j \in 1..Len(df) :
        /\ df[i].Total_Skor_Nugas = df[j].Total_Skor_Nugas
        /\ df[i].Total_Skor_Nongkrong = df[j].Total_Skor_Nongkrong

\* C13: when all shops have the same nugas total and all shops have the same
\* nongkrong total (a single shop, or no keyword in any review, included),
\* scaling gives every shop 0.0 for both personas and segmentation labels
\* every shop All-Rounder, in the dataframe and in the file that is saved.
C13_NoSpreadMeansAllRounder ==
    /\ (pc \in {"scaled", "done"} /\ all_totals_equal(shop_scores)) =>
          \A i \in 1..Len(shop_scores) :
              /\ shop_scores[i].Nugas_Score_Normalized = f_zero
              /\ shop_scores[i].Nongkrong_Score_Normalized = f_zero
    /\ (pc4 \in {"segmented", "ranked", "done"} /\ all_totals_equal(df_scores)) =>
          \A i \in 1..Len(df_scores) : df_scores[i].Segment = "All-Rounder"
    /\ (final_file.exists /\ all_totals_equal(final_file.rows)) =>
          \A i \in 1..Len(final_file.rows) : final_file.rows[i].Segment = "All-Rounder"

\* Three shops, each with a nugas total of 6 and a nongkrong total of 1,
\* all of them labelled All-Rounder.
C13_Witness ==
    /\ pc4 = "segmented"
    /\ Len(df_scores) = 3
    /\ \A i \in 1..Len(df_scores) :
          /\ df_scores[i].Total_Skor_Nugas = 6
          /\ df_scores[i].Total_Skor_Nongkrong = 1
          /\ df_scores[i].Segment = "All-Rounder"

====
